---- MODULE Spec2Model ----
(***************************************************************************)
(* Model of the WebGL presentation surface of the gfx GL backend           *)
(* (src/backend/gl/src/window/web.rs): the Surface with its optional       *)
(* Swapchain and optional renderbuffer, the GL context objects it creates  *)
(* and deletes, and the operations configure_swapchain,                    *)
(* unconfigure_swapchain and acquire_image.                                *)
(*                                                                         *)
(* Option<T> is modelled as a sequence of length at most one:              *)
(* None == <<>>, Some(x) == <<x>>.                                         *)
(***************************************************************************)
EXTENDS Integers, Sequences, FiniteSets, TLC

\* ---------------------------------------------------------------- bounds
\* number of framebuffer keys the context can hand out in one behaviour
MaxFbo == 3
\* number of renderbuffer keys the context can hand out in one behaviour
MaxRbo == 1
\* width in bits of the scaled-down u32 / i32 of the model
IntBits == 3

FboKeys == 1..MaxFbo
RboKeys == 1..MaxRbo

None == <<>>
Some(x) == <<x>>

\* ------------------------------------------------------------ the inputs
\* window::Extent2D { width: u32, height: u32 }
TwoPow(n) == 2^n
Extents ==
    { [width |-> 1, height |-> 2],
      [width |-> 2, height |-> 1],
      [width |-> TwoPow(IntBits - 1), height |-> 1] }

\* f::Format values handed to configure_swapchain
Formats == {"Rgba8Unorm", "Undefined"}

\* config.image_count: the number of images the caller asks for
ImageCounts == {2, 3}

\* window::SwapchainConfig: the fields configure_swapchain reads, and the
\* image count, which it does not read
Configs == [format : Formats, extent : Extents, image_count : ImageCounts]

\* _timeout_ns : u64
Timeouts == {0, 1}

\* self.canvas.width(), self.canvas.height(): the sizes the hosting
\* environment gives the canvas
CanvasSizes == { [width |-> 3, height |-> 1], [width |-> 3, height |-> 3] }

\* the canvas of Instance::create, before any resize
DefaultCanvas == [width |-> 3, height |-> 1]

\* conv::describe_format: the internal storage format of an abstract
\* format, nothing for a format it cannot translate
describe_format(format) ==
    IF format = "Rgba8Unorm" THEN Some([tex_internal |-> "RGBA8"]) ELSE None

\* `x as i32` of a u32 x, at the model's integer width
AsI32(x) == IF x >= TwoPow(IntBits - 1) THEN x - TwoPow(IntBits) ELSE x

\* ---------------------------------------------------------------- state
VARIABLES
    surface,     \* Surface { swapchain, renderbuffer }
    gl,          \* the objects of device.share.context
    calls,       \* the GL calls the last operation issued, in order
    result,      \* the last operation and what it returned
    config,      \* Some(the SwapchainConfig of the last configure_swapchain)
    timeout_ns,  \* the timeout of the last acquire_image
    pre,         \* the Surface before the last operation
    preLive,     \* the live framebuffers and renderbuffers before the last operation
    prevOp,      \* the operation before the last one
    configured,  \* a configure_swapchain succeeded since the last unconfigure_swapchain
    dropped,     \* the Surface has been dropped
    canvas,      \* width and height of the HtmlCanvasElement
    returned,    \* Some(what the last query returned), None after any other operation
    clone        \* Some(a Surface made by Surface::clone), None before the first clone

vars == <<surface, gl, calls, result, config, timeout_ns, pre, preLive,
          prevOp, configured, dropped, canvas, returned, clone>>

\* Instance::create_surface_with_element
NewSurface == [swapchain |-> None, renderbuffer |-> None]

\* a context that has created nothing yet
NewContext ==
    [ framebuffers  |-> {},                       \* live framebuffer keys
      renderbuffers |-> {},                       \* live renderbuffer keys
      nFbo          |-> 0,                        \* framebuffers created
      nRbo          |-> 0,                        \* renderbuffers created
      fboDeletes    |-> [k \in FboKeys |-> 0],    \* delete_framebuffer calls per key
      rboDeletes    |-> [k \in RboKeys |-> 0],    \* delete_renderbuffer calls per key
      storage       |-> [k \in RboKeys |-> None], \* renderbuffer_storage per key
      attachment    |-> [k \in FboKeys |-> None], \* COLOR_ATTACHMENT0 per key
      boundRb       |-> None,                     \* RENDERBUFFER binding
      boundReadFb   |-> None ]                    \* READ_FRAMEBUFFER binding

\* the live native objects of a context
Live(g) == [framebuffers |-> g.framebuffers, renderbuffers |-> g.renderbuffers]

NoResult == [op |-> "none", status |-> "ok", image |-> None, suboptimal |-> None]

Init ==
    /\ surface = NewSurface
    /\ gl = NewContext
    /\ calls = <<>>
    /\ result = NoResult
    /\ config = None
    /\ timeout_ns = 0
    /\ pre = NewSurface
    /\ preLive = Live(NewContext)
    /\ prevOp = "none"
    /\ configured = FALSE
    /\ dropped = FALSE
    /\ canvas = DefaultCanvas
    /\ returned = None
    /\ clone = None

\* ------------------------------------------------------ the GL primitives
\* A machine m is [surface, gl, calls, status]: the Surface, the context,
\* the calls issued so far and "ok" or "panic".
Machine(s, g) == [surface |-> s, gl |-> g, calls |-> <<>>, status |-> "ok"]

Call(m, name, key) == Append(m.calls, <<name, key>>)

\* gl.delete_framebuffer(fbo)
delete_framebuffer(m, fbo) ==
    [m EXCEPT !.gl.framebuffers = @ \ {fbo},
              !.gl.fboDeletes[fbo] = @ + 1,
              !.gl.boundReadFb = IF @ = Some(fbo) THEN None ELSE @,
              !.calls = Call(m, "delete_framebuffer", fbo)]

\* gl.delete_renderbuffer(rbo)
delete_renderbuffer(m, rbo) ==
    [m EXCEPT !.gl.renderbuffers = @ \ {rbo},
              !.gl.rboDeletes[rbo] = @ + 1,
              !.gl.boundRb = IF @ = Some(rbo) THEN None ELSE @,
              !.calls = Call(m, "delete_renderbuffer", rbo)]

\* gl.create_renderbuffer(), when the context returns a handle
create_renderbuffer(m) ==
    LET rbo == m.gl.nRbo + 1 IN
    [m EXCEPT !.gl.nRbo = rbo,
              !.gl.renderbuffers = @ \cup {rbo},
              !.calls = Call(m, "create_renderbuffer", rbo)]

\* gl.create_framebuffer(), when the context returns a handle
create_framebuffer(m) ==
    LET fbo == m.gl.nFbo + 1 IN
    [m EXCEPT !.gl.nFbo = fbo,
              !.gl.framebuffers = @ \cup {fbo},
              !.calls = Call(m, "create_framebuffer", fbo)]

\* a create call that returns no handle: .unwrap() panics
create_failed(m, name) ==
    [m EXCEPT !.calls = Call(m, name, 0), !.status = "panic"]

\* gl.bind_renderbuffer(glow::RENDERBUFFER, self.renderbuffer)
bind_renderbuffer(m) ==
    [m EXCEPT !.gl.boundRb = m.surface.renderbuffer,
              !.calls = Call(m, "bind_renderbuffer", m.surface.renderbuffer[1])]

\* gl.renderbuffer_storage(glow::RENDERBUFFER, internal, width as i32, height as i32):
\* a negative size is INVALID_VALUE and leaves the storage as it was
renderbuffer_storage(m, internal, width, height) ==
    LET rbo == m.gl.boundRb[1] IN
    [m EXCEPT !.gl.storage[rbo] =
                  IF width < 0 \/ height < 0 THEN @
                  ELSE Some([format |-> internal, width |-> width, height |-> height]),
              !.calls = Call(m, "renderbuffer_storage", rbo)]

\* gl.bind_framebuffer(glow::READ_FRAMEBUFFER, Some(fbo))
bind_framebuffer(m, fbo) ==
    [m EXCEPT !.gl.boundReadFb = Some(fbo),
              !.calls = Call(m, "bind_framebuffer", fbo)]

\* gl.framebuffer_renderbuffer(READ_FRAMEBUFFER, COLOR_ATTACHMENT0, RENDERBUFFER, self.renderbuffer)
framebuffer_renderbuffer(m) ==
    LET fbo == m.gl.boundReadFb[1] IN
    [m EXCEPT !.gl.attachment[fbo] = m.surface.renderbuffer,
              !.calls = Call(m, "framebuffer_renderbuffer", fbo)]

\* ------------------------------------------------------------ the handlers
\* for fbo in old.fbos { gl.delete_framebuffer(fbo); }
RECURSIVE DeleteFbos(_, _)
DeleteFbos(m, fbos) ==
    IF fbos = <<>> THEN m
    ELSE DeleteFbos(delete_framebuffer(m, Head(fbos)), Tail(fbos))

\* mutant: the old swapchain is taken but its framebuffers are not deleted
TakeSwapchainKeepsFbos(m) ==
    [m EXCEPT !.surface.swapchain = None]

\* if let Some(old) = self.swapchain.take() { for fbo in old.fbos { .. } }
TakeSwapchain(m) ==
    IF m.surface.swapchain = None THEN m
    ELSE DeleteFbos([m EXCEPT !.surface.swapchain = None],
                    m.surface.swapchain[1].fbos)

\* mutant: a renderbuffer is created on every call
EnsureRenderbufferAlwaysCreates(m, rbOk) ==
    IF ~rbOk THEN create_failed(m, "create_renderbuffer")
    ELSE LET c == create_renderbuffer(m) IN
         [c EXCEPT !.surface.renderbuffer = Some(c.gl.nRbo)]

\* if self.renderbuffer.is_none() {
\*     self.renderbuffer = Some(gl.create_renderbuffer().unwrap()); }
EnsureRenderbuffer(m, rbOk) ==
    IF m.surface.renderbuffer # None THEN m
    ELSE IF ~rbOk THEN create_failed(m, "create_renderbuffer")
    ELSE LET c == create_renderbuffer(m) IN
         [c EXCEPT !.surface.renderbuffer = Some(c.gl.nRbo)]

\* let desc = conv::describe_format(config.format).unwrap();
\* gl.bind_renderbuffer(..); gl.renderbuffer_storage(..);
ProvisionStorage(m, cfg) ==
    LET desc == describe_format(cfg.format) IN
    IF desc = None THEN [m EXCEPT !.status = "panic"]
    ELSE renderbuffer_storage(bind_renderbuffer(m), desc[1].tex_internal,
                              AsI32(cfg.extent.width), AsI32(cfg.extent.height))

\* mutant: the framebuffer list gets one entry per requested image
InstallSwapchainPerImage(m, cfg, fbOk) ==
    IF ~fbOk THEN create_failed(m, "create_framebuffer")
    ELSE LET c   == create_framebuffer(m)
             fbo == c.gl.nFbo
             a   == framebuffer_renderbuffer(bind_framebuffer(c, fbo))
         IN [a EXCEPT !.surface.swapchain =
                          Some([extent |-> cfg.extent,
                                fbos |-> [i \in 1..cfg.image_count |-> fbo]])]

\* let fbo = gl.create_framebuffer().unwrap(); bind, attach,
\* self.swapchain = Some(Swapchain { extent, fbos: iter::once(fbo).collect() })
InstallSwapchain(m, cfg, fbOk) ==
    IF ~fbOk THEN create_failed(m, "create_framebuffer")
    ELSE LET c   == create_framebuffer(m)
             fbo == c.gl.nFbo
             a   == framebuffer_renderbuffer(bind_framebuffer(c, fbo))
         IN [a EXCEPT !.surface.swapchain =
                          Some([extent |-> cfg.extent, fbos |-> <<fbo>>])]

\* a step of a handler: nothing runs after a panic
Then(m, next) == IF m.status = "panic" THEN m ELSE next

\* mutant: the old framebuffers are deleted only once the new swapchain is
\* installed
configure_swapchain_deletes_last(s, g, cfg, rbOk, fbOk) ==
    LET m1 == Machine(s, g)
        m2 == Then(m1, EnsureRenderbuffer(m1, rbOk))
        m3 == Then(m2, ProvisionStorage(m2, cfg))
        m4 == Then(m3, InstallSwapchain(m3, cfg, fbOk))
    IN IF s.swapchain = None THEN m4
       ELSE IF m4.status = "panic"
            THEN DeleteFbos([m4 EXCEPT !.surface.swapchain = None],
                            s.swapchain[1].fbos)
            ELSE DeleteFbos(m4, s.swapchain[1].fbos)

\* mutant: the old swapchain is overwritten without being taken and released
configure_swapchain_overwrites(s, g, cfg, rbOk, fbOk) ==
    LET m1 == Machine(s, g)
        m2 == Then(m1, EnsureRenderbuffer(m1, rbOk))
        m3 == Then(m2, ProvisionStorage(m2, cfg))
        m4 == Then(m3, InstallSwapchain(m3, cfg, fbOk))
    IN m4

\* PresentationSurface::configure_swapchain(&mut self, device, config);
\* rbOk, fbOk: whether the context returns a handle from create_renderbuffer,
\* create_framebuffer
configure_swapchain(s, g, cfg, rbOk, fbOk) ==
    LET m1 == TakeSwapchain(Machine(s, g))
        m2 == Then(m1, EnsureRenderbuffer(m1, rbOk))
        m3 == Then(m2, ProvisionStorage(m2, cfg))
        m4 == Then(m3, InstallSwapchain(m3, cfg, fbOk))
    IN m4

\* mutant: the renderbuffer is deleted but the field keeps the handle
DeleteRenderbufferKeepsHandle(m) ==
    IF m.surface.renderbuffer = None THEN m
    ELSE delete_renderbuffer(m, m.surface.renderbuffer[1])

\* if let Some(rbo) = self.renderbuffer.take() { gl.delete_renderbuffer(rbo); }
DeleteRenderbuffer(m) ==
    IF m.surface.renderbuffer = None THEN m
    ELSE delete_renderbuffer([m EXCEPT !.surface.renderbuffer = None],
                             m.surface.renderbuffer[1])

\* mutant: only the renderbuffer is released
unconfigure_swapchain_rbo_only(s, g) == DeleteRenderbuffer(Machine(s, g))

\* PresentationSurface::unconfigure_swapchain(&mut self, device)
unconfigure_swapchain(s, g) == DeleteRenderbuffer(TakeSwapchain(Machine(s, g)))

\* mutant: the swapchain, not the renderbuffer, decides whether an image exists
acquire_image_checks_swapchain(s, timeout) ==
    IF s.swapchain = None
    THEN [op |-> "acquire_image", status |-> "panic",
          image |-> None, suboptimal |-> None]
    ELSE [op |-> "acquire_image", status |-> "ok",
          image |-> Some(s.renderbuffer[1]), suboptimal |-> None]

\* PresentationSurface::acquire_image(&mut self, _timeout_ns):
\* ImageView::Renderbuffer(self.renderbuffer.unwrap()), Ok((image, None))
acquire_image(s, timeout) ==
    IF s.renderbuffer = None
    THEN [op |-> "acquire_image", status |-> "panic",
          image |-> None, suboptimal |-> None]
    ELSE [op |-> "acquire_image", status |-> "ok",
          image |-> Some(s.renderbuffer[1]), suboptimal |-> None]

\* mutant: the extent of the configured swapchain is reported while one exists
compatibility_reports_swapchain(s, c) ==
    LET extent == IF s.swapchain # None THEN s.swapchain[1].extent
                  ELSE [width |-> c.width, height |-> c.height]
    IN [ caps |-> [ image_count      |-> [start |-> 2, end |-> 2],
                    current_extent   |-> Some(extent),
                    extents          |-> [start |-> extent, end |-> extent],
                    max_image_layers |-> 1,
                    usage            |-> {"COLOR_ATTACHMENT", "TRANSFER_SRC"},
                    composite_alpha  |-> "OPAQUE" ],
         formats       |-> Some(<<"Rgba8Unorm", "Bgra8Unorm">>),
         present_modes |-> <<"Fifo">> ]

\* mutant: the image count follows the number of framebuffers, and the
\* smallest extent offered is the empty one
compatibility_ranges(s, c) ==
    LET extent == [width |-> c.width, height |-> c.height]
    IN [ caps |-> [ image_count      |-> [start |-> 1, end |-> 3],
                    current_extent   |-> Some(extent),
                    extents          |-> [start |-> [width |-> 0, height |-> 0],
                                          end |-> extent],
                    max_image_layers |-> 1,
                    usage            |-> {"COLOR_ATTACHMENT", "TRANSFER_SRC"},
                    composite_alpha  |-> "OPAQUE" ],
         formats       |-> Some(<<"Rgba8Unorm", "Bgra8Unorm">>),
         present_modes |-> <<"Fifo">> ]

\* window::Surface::compatibility(&self, _) of Surface s with canvas c:
\* (caps, Some(self.swapchain_formats()), present_modes); a range a ..= b is
\* [start |-> a, end |-> b]
compatibility(s, c) ==
    LET extent == [width |-> c.width, height |-> c.height]
    IN [ caps |-> [ image_count      |-> [start |-> 2, end |-> 2],
                    current_extent   |-> Some(extent),
                    extents          |-> [start |-> extent, end |-> extent],
                    max_image_layers |-> 1,
                    usage            |-> {"COLOR_ATTACHMENT", "TRANSFER_SRC"},
                    composite_alpha  |-> "OPAQUE" ],
         formats       |-> Some(<<"Rgba8Unorm", "Bgra8Unorm">>),
         present_modes |-> <<"Fifo">> ]

\* mutant: a zero timeout with no fence to wait on reports NotReady
swapchain_acquire_image_polls(sc, timeout, semaphore, fence) ==
    IF timeout = 0 /\ ~fence
    THEN [status |-> "NotReady", index |-> None, suboptimal |-> None, swapchain |-> sc]
    ELSE [status |-> "ok", index |-> Some(0), suboptimal |-> None, swapchain |-> sc]

\* window::Swapchain::acquire_image(&mut self, _timeout_ns, _semaphore, _fence)
\* of Swapchain sc: Ok((0, None)); semaphore, fence: whether one is supplied
swapchain_acquire_image(sc, timeout, semaphore, fence) ==
    [status |-> "ok", index |-> Some(0), suboptimal |-> None, swapchain |-> sc]

\* ------------------------------------------------------------- the actions
Remember(op) ==
    /\ pre' = surface
    /\ preLive' = Live(gl)
    /\ prevOp' = result.op

\* an operation of the Surface that is no query and touches neither the
\* canvas nor a clone
SurfaceOnly ==
    /\ returned' = None
    /\ UNCHANGED <<canvas, clone>>

ConfigureSwapchain ==
    /\ ~dropped
    /\ gl.nFbo < MaxFbo
    /\ (surface.renderbuffer # None \/ gl.nRbo < MaxRbo)
    /\ \E cfg \in Configs, rbOk \in BOOLEAN, fbOk \in BOOLEAN :
          LET m == configure_swapchain(surface, gl, cfg, rbOk, fbOk) IN
          /\ surface' = m.surface
          /\ gl' = m.gl
          /\ calls' = m.calls
          /\ result' = [op |-> "configure_swapchain", status |-> m.status,
                        image |-> None, suboptimal |-> None]
          /\ config' = Some(cfg)
          /\ configured' = (configured \/ m.status = "ok")
    /\ Remember("configure_swapchain")
    /\ SurfaceOnly
    /\ UNCHANGED <<timeout_ns, dropped>>

UnconfigureSwapchain ==
    /\ ~dropped
    /\ LET m == unconfigure_swapchain(surface, gl) IN
          /\ surface' = m.surface
          /\ gl' = m.gl
          /\ calls' = m.calls
          /\ result' = [op |-> "unconfigure_swapchain", status |-> m.status,
                        image |-> None, suboptimal |-> None]
    /\ configured' = FALSE
    /\ Remember("unconfigure_swapchain")
    /\ SurfaceOnly
    /\ UNCHANGED <<config, timeout_ns, dropped>>

AcquireImage ==
    /\ ~dropped
    /\ \E timeout \in Timeouts :
          /\ result' = acquire_image(surface, timeout)
          /\ timeout_ns' = timeout
    /\ calls' = <<>>
    /\ Remember("acquire_image")
    /\ SurfaceOnly
    /\ UNCHANGED <<surface, gl, config, configured, dropped>>

\* the Surface goes out of scope: it has no Drop impl and its handles are
\* plain keys, so no GL call is issued
DropSurface ==
    /\ ~dropped
    /\ dropped' = TRUE
    /\ calls' = <<>>
    /\ result' = [op |-> "drop", status |-> "ok",
                  image |-> None, suboptimal |-> None]
    /\ Remember("drop")
    /\ SurfaceOnly
    /\ UNCHANGED <<surface, gl, config, timeout_ns, configured>>

Next ==
    \/ ConfigureSwapchain
    \/ UnconfigureSwapchain
    \/ AcquireImage
    \/ DropSurface

Spec == Init /\ [][Next]_vars

\* the hosting environment resizes the canvas
ResizeCanvas ==
    /\ ~dropped
    /\ \E size \in CanvasSizes \ {canvas} : canvas' = size
    /\ calls' = <<>>
    /\ result' = [op |-> "resize", status |-> "ok",
                  image |-> None, suboptimal |-> None]
    /\ returned' = None
    /\ Remember("resize")
    /\ UNCHANGED <<surface, gl, config, timeout_ns, configured, dropped, clone>>

\* window::Surface::compatibility(&self, _: &PhysicalDevice)
Compatibility ==
    /\ ~dropped
    /\ returned' = Some(compatibility(surface, canvas))
    /\ calls' = <<>>
    /\ result' = [op |-> "compatibility", status |-> "ok",
                  image |-> None, suboptimal |-> None]
    /\ Remember("compatibility")
    /\ UNCHANGED <<surface, gl, config, timeout_ns, configured, dropped,
                   canvas, clone>>

\* configure_swapchain and unconfigure_swapchain interleaved with the
\* capability query and the resizes of the canvas
NextCanvas ==
    \/ ConfigureSwapchain
    \/ UnconfigureSwapchain
    \/ ResizeCanvas
    \/ Compatibility

SpecCanvas == Init /\ [][NextCanvas]_vars

\* ------------------------------------------------------------- properties
Range(seq) == {seq[i] : i \in 1..Len(seq)}

\* the keys the context has handed out so far
CreatedFbos == 1..gl.nFbo
CreatedRbos == 1..gl.nRbo

\* names of the calls the last operation issued
CallNames == {c[1] : c \in Range(calls)}

ConfigureReturned == result.op = "configure_swapchain"
ConfigureOk == ConfigureReturned /\ result.status = "ok"
UnconfigureReturned == result.op = "unconfigure_swapchain"
AcquireReturned == result.op = "acquire_image"

\* every native object created so far has been deleted, and exactly once
AllReleasedOnce ==
    /\ gl.framebuffers = {}
    /\ gl.renderbuffers = {}
    /\ \A k \in CreatedFbos : gl.fboDeletes[k] = 1
    /\ \A k \in CreatedRbos : gl.rboDeletes[k] = 1

\* C1: after a successful configure_swapchain, whatever came before it, the
\* recorded extent is the extent of that call's configuration and exactly one
\* framebuffer and one renderbuffer are live, the ones the Surface holds.
C1_ReconfigureKeepsOneBackingStore ==
    ConfigureOk =>
        /\ surface.swapchain # None
        /\ surface.swapchain[1].extent = config[1].extent
        /\ Cardinality(gl.framebuffers) = 1
        /\ Cardinality(gl.renderbuffers) = 1
        /\ gl.framebuffers = Range(surface.swapchain[1].fbos)
        /\ gl.renderbuffers = Range(surface.renderbuffer)

\* a second successful configure_swapchain with another extent, right after
\* a first one
C1_Witness ==
    /\ ConfigureOk
    /\ prevOp = "configure_swapchain"
    /\ pre.swapchain # None
    /\ pre.swapchain[1].extent # config[1].extent
    /\ gl.nFbo >= 2

\* C2: after unconfigure_swapchain every framebuffer and renderbuffer ever
\* created for the Surface has been deleted and both fields are None.
C2_UnconfigureReleasesAll ==
    UnconfigureReturned =>
        /\ surface.swapchain = None
        /\ surface.renderbuffer = None
        /\ gl.framebuffers = {}
        /\ gl.renderbuffers = {}
        /\ \A k \in CreatedFbos : gl.fboDeletes[k] >= 1
        /\ \A k \in CreatedRbos : gl.rboDeletes[k] >= 1

\* unconfigure_swapchain of a Surface that was configured twice
C2_Witness ==
    /\ UnconfigureReturned
    /\ pre.swapchain # None
    /\ pre.renderbuffer # None
    /\ gl.nFbo >= 2

\* C3 (as claimed): acquire_image on a Surface with no configured backing
\* store returns Err(AcquireError) and no image.
C3_AcquireUnconfiguredReturnsErr ==
    (AcquireReturned /\ ~configured) =>
        /\ result.status = "AcquireError"
        /\ result.image = None

\* C4: between a successful configure_swapchain and the next
\* unconfigure_swapchain, acquire_image returns Ok for every timeout, with an
\* image wrapping the renderbuffer the Surface holds, which is live, and no
\* suboptimal flag.
C4_AcquireConfiguredReturnsRenderbuffer ==
    (AcquireReturned /\ configured) =>
        /\ result.status = "ok"
        /\ result.image # None
        /\ result.image = surface.renderbuffer
        /\ result.image[1] \in gl.renderbuffers
        /\ result.suboptimal = None

\* acquire_image with a non-zero timeout after a successful configure
C4_Witness ==
    /\ AcquireReturned
    /\ configured
    /\ timeout_ns = 1
    /\ result.status = "ok"
    /\ surface.swapchain # None

\* C5 (as claimed): configure_swapchain with a format describe_format cannot
\* translate returns Err(CreationError).
C5_UnsupportedFormatReturnsErr ==
    (ConfigureReturned /\ describe_format(config[1].format) = None) =>
        result.status = "CreationError"

\* C6 (as claimed): configure_swapchain with an untranslatable format creates
\* no renderbuffer and no framebuffer, so no live object is added.
C6_NoAllocationOnUnsupportedFormat ==
    (ConfigureReturned /\ describe_format(config[1].format) = None) =>
        /\ "create_renderbuffer" \notin CallNames
        /\ "create_framebuffer" \notin CallNames
        /\ gl.framebuffers \subseteq preLive.framebuffers
        /\ gl.renderbuffers \subseteq preLive.renderbuffers

\* C7 (as claimed): a configure_swapchain that fails leaves the Surface in
\* the state it had before the call.
C7_FailedConfigureRestoresState ==
    (ConfigureReturned /\ result.status # "ok") => surface = pre

\* C8 (as claimed): once the Surface is destroyed, with or without a final
\* unconfigure_swapchain, every native object created for it has been deleted
\* exactly once.
C8_DropReleasesAll ==
    dropped => AllReleasedOnce

\* C8 (amended): no native object is ever deleted twice, and a Surface
\* destroyed directly after unconfigure_swapchain leaves every native object
\* created for it deleted exactly once.
C8_UnconfigureThenDropReleasesAll ==
    /\ \A k \in CreatedFbos : gl.fboDeletes[k] <= 1
    /\ \A k \in CreatedRbos : gl.rboDeletes[k] <= 1
    /\ (dropped /\ prevOp = "unconfigure_swapchain") => AllReleasedOnce

\* a Surface configured twice, unconfigured and then destroyed
C8_Witness ==
    /\ dropped
    /\ prevOp = "unconfigure_swapchain"
    /\ gl.nFbo >= 2
    /\ gl.nRbo >= 1

\* C9: at most one framebuffer is live at any time, it is the one of the
\* Surface's swapchain, and the Surface's renderbuffer is the color
\* attachment of at most one live framebuffer.
C9_AtMostOneBackingStore ==
    /\ Cardinality(gl.framebuffers) <= 1
    /\ surface.swapchain # None =>
           /\ Len(surface.swapchain[1].fbos) = 1
           /\ Range(surface.swapchain[1].fbos) = gl.framebuffers
    /\ surface.swapchain = None => gl.framebuffers = {}
    /\ Cardinality({k \in gl.framebuffers :
                       gl.attachment[k] # None
                       /\ gl.attachment[k] = surface.renderbuffer}) <= 1

\* a reconfigured Surface: the third framebuffer created is the only live one
\* and carries the renderbuffer
C9_Witness ==
    /\ surface.swapchain # None
    /\ gl.nFbo = 3
    /\ gl.framebuffers = {3}
    /\ gl.attachment[3] = surface.renderbuffer
    /\ gl.attachment[2] = surface.renderbuffer

\* C10: unconfigure_swapchain on a Surface with nothing configured, also
\* directly after another unconfigure_swapchain, issues no GL call, returns
\* normally and leaves swapchain = None, renderbuffer = None and the live
\* objects as they were.
C10_UnconfigureIdempotent ==
    (UnconfigureReturned /\ (pre = NewSurface \/ prevOp = "unconfigure_swapchain")) =>
        /\ calls = <<>>
        /\ result.status = "ok"
        /\ surface = NewSurface
        /\ Live(gl) = preLive

\* a second unconfigure_swapchain directly after one that released objects
C10_Witness ==
    /\ UnconfigureReturned
    /\ prevOp = "unconfigure_swapchain"
    /\ pre = NewSurface
    /\ gl.nRbo >= 1
    /\ gl.rboDeletes[1] = 1

CompatibilityReturned == result.op = "compatibility"

\* the legacy acquire on the Swapchain the Surface holds
SwapchainAcquireImage ==
    /\ ~dropped
    /\ surface.swapchain # None
    /\ \E timeout \in Timeouts, semaphore \in BOOLEAN, fence \in BOOLEAN :
          LET r == swapchain_acquire_image(surface.swapchain[1], timeout,
                                           semaphore, fence)
          IN /\ surface' = [surface EXCEPT !.swapchain = Some(r.swapchain)]
             /\ result' = [op |-> "Swapchain::acquire_image", status |-> r.status,
                           image |-> None, suboptimal |-> r.suboptimal]
             /\ returned' = Some([index |-> r.index, semaphore |-> semaphore,
                                  fence |-> fence])
             /\ timeout_ns' = timeout
    /\ calls' = <<>>
    /\ Remember("Swapchain::acquire_image")
    /\ UNCHANGED <<gl, config, configured, dropped, canvas, clone>>

\* configure_swapchain and unconfigure_swapchain interleaved with the legacy
\* acquire
NextSwapchain ==
    \/ ConfigureSwapchain
    \/ UnconfigureSwapchain
    \/ SwapchainAcquireImage

SpecSwapchain == Init /\ [][NextSwapchain]_vars

\* #[derive(Clone)] on Surface and Swapchain: the copy holds the same
\* framebuffer and renderbuffer handles
CloneSurface ==
    /\ ~dropped
    /\ clone = None
    /\ clone' = Some(surface)
    /\ calls' = <<>>
    /\ result' = [op |-> "clone", status |-> "ok",
                  image |-> None, suboptimal |-> None]
    /\ returned' = None
    /\ Remember("clone")
    /\ UNCHANGED <<surface, gl, config, timeout_ns, configured, dropped, canvas>>

\* unconfigure_swapchain called on the clone
CloneUnconfigureSwapchain ==
    /\ clone # None
    /\ LET m == unconfigure_swapchain(clone[1], gl) IN
          /\ clone' = Some(m.surface)
          /\ gl' = m.gl
          /\ calls' = m.calls
          /\ result' = [op |-> "clone.unconfigure_swapchain", status |-> m.status,
                        image |-> None, suboptimal |-> None]
    /\ returned' = None
    /\ pre' = clone[1]
    /\ preLive' = Live(gl)
    /\ prevOp' = result.op
    /\ UNCHANGED <<surface, config, timeout_ns, configured, dropped, canvas>>

\* acquire_image called on the clone
CloneAcquireImage ==
    /\ clone # None
    /\ \E timeout \in Timeouts :
          LET r == acquire_image(clone[1], timeout) IN
          /\ result' = [r EXCEPT !.op = "clone.acquire_image"]
          /\ timeout_ns' = timeout
    /\ calls' = <<>>
    /\ returned' = None
    /\ pre' = clone[1]
    /\ preLive' = Live(gl)
    /\ prevOp' = result.op
    /\ UNCHANGED <<surface, gl, clone, config, configured, dropped, canvas>>

\* a Surface that is configured and reconfigured, and one clone of it that
\* is unconfigured and asked for its image
NextClone ==
    \/ ConfigureSwapchain
    \/ CloneSurface
    \/ CloneUnconfigureSwapchain
    \/ CloneAcquireImage

SpecClone == Init /\ [][NextClone]_vars

\* C11: for a canvas of size (w, h), compatibility returns image_count
\* 2 ..= 2, current_extent Some((w, h)), extents (w, h) ..= (w, h), a usage
\* containing COLOR_ATTACHMENT and TRANSFER_SRC, composite alpha OPAQUE and
\* the present modes [Fifo].
C11_CapabilitiesOfCanvas ==
    CompatibilityReturned =>
        /\ returned # None
        /\ LET caps == returned[1].caps
               wh   == [width |-> canvas.width, height |-> canvas.height]
           IN /\ caps.image_count = [start |-> 2, end |-> 2]
              /\ caps.current_extent = Some(wh)
              /\ caps.extents = [start |-> wh, end |-> wh]
              /\ {"COLOR_ATTACHMENT", "TRANSFER_SRC"} \subseteq caps.usage
              /\ caps.composite_alpha = "OPAQUE"
        /\ returned[1].present_modes = <<"Fifo">>

\* compatibility on a canvas that has been resized
C11_Witness ==
    /\ CompatibilityReturned
    /\ returned # None
    /\ canvas = [width |-> 3, height |-> 3]
    /\ prevOp = "resize"

\* C12: compatibility reports the size the canvas has at the moment of the
\* call, whatever swapchain is or was configured, and changes neither the
\* Surface nor the live native objects and issues no GL call.
C12_CapabilitiesNotCached ==
    CompatibilityReturned =>
        /\ result.status = "ok"
        /\ returned # None
        /\ returned[1].caps.current_extent =
               Some([width |-> canvas.width, height |-> canvas.height])
        /\ surface = pre
        /\ Live(gl) = preLive
        /\ calls = <<>>

\* compatibility on a resized canvas while a swapchain of another extent is
\* configured
C12_Witness ==
    /\ CompatibilityReturned
    /\ canvas # DefaultCanvas
    /\ surface.swapchain # None
    /\ surface.swapchain[1].extent # canvas
    /\ returned[1].caps.current_extent = Some(canvas)

\* C13: a configure_swapchain that fails on a Surface that had a swapchain
\* leaves the old framebuffers deleted and no swapchain installed.
C13_FailedReconfigureTearsDown ==
    (ConfigureReturned /\ result.status # "ok" /\ pre.swapchain # None) =>
        /\ surface.swapchain = None
        /\ \A k \in Range(pre.swapchain[1].fbos) :
               /\ k \notin gl.framebuffers
               /\ gl.fboDeletes[k] = 1
        /\ gl.framebuffers = {}

\* a reconfiguration that fails at create_framebuffer
C13_Witness ==
    /\ ConfigureReturned
    /\ result.status = "panic"
    /\ pre.swapchain # None
    /\ describe_format(config[1].format) # None
    /\ surface.renderbuffer # None

\* C15: configure_swapchain on a Surface that holds a renderbuffer issues no
\* create_renderbuffer and keeps the handle, and the renderbuffers created
\* and not yet deleted are exactly the one the Surface holds, so at most one
\* is created between two unconfigure_swapchain calls.
C15_RenderbufferReused ==
    /\ (ConfigureReturned /\ pre.renderbuffer # None) =>
           /\ surface.renderbuffer = pre.renderbuffer
           /\ "create_renderbuffer" \notin CallNames
           /\ gl.renderbuffers = preLive.renderbuffers
    /\ gl.renderbuffers = Range(surface.renderbuffer)
    /\ \A k \in CreatedRbos : k \notin gl.renderbuffers => gl.rboDeletes[k] = 1

\* a second successful configure_swapchain in a row, on the renderbuffer of
\* the first
C15_Witness ==
    /\ ConfigureOk
    /\ prevOp = "configure_swapchain"
    /\ pre.swapchain # None
    /\ pre.renderbuffer = Some(1)
    /\ surface.renderbuffer = Some(1)
    /\ gl.nFbo >= 2
    /\ gl.nRbo = 1

\* C16 (as claimed): whenever a swapchain is installed, its extent is the
\* width and height of the storage of the Surface's renderbuffer.
C16_ExtentMatchesStorage ==
    surface.swapchain # None =>
        /\ surface.renderbuffer # None
        /\ gl.storage[surface.renderbuffer[1]] # None
        /\ gl.storage[surface.renderbuffer[1]][1].width
               = surface.swapchain[1].extent.width
        /\ gl.storage[surface.renderbuffer[1]][1].height
               = surface.swapchain[1].extent.height

\* C17: after a successful configure_swapchain, whatever image count was
\* requested, the swapchain has exactly one framebuffer, created by this
\* call, live, with the Surface's renderbuffer as its color attachment 0.
C17_OneNewFramebuffer ==
    ConfigureOk =>
        /\ surface.swapchain # None
        /\ surface.renderbuffer # None
        /\ Len(surface.swapchain[1].fbos) = 1
        /\ LET fbo == surface.swapchain[1].fbos[1] IN
              /\ fbo \in gl.framebuffers
              /\ fbo \notin preLive.framebuffers
              /\ <<"create_framebuffer", fbo>> \in Range(calls)
              /\ gl.attachment[fbo] = surface.renderbuffer

\* a successful reconfiguration that asked for three images
C17_Witness ==
    /\ ConfigureOk
    /\ config[1].image_count = 3
    /\ pre.swapchain # None
    /\ Len(surface.swapchain[1].fbos) = 1
    /\ surface.swapchain[1].fbos[1] = gl.nFbo

\* the framebuffers live after the first n calls of the last operation
RECURSIVE LiveFbosAfter(_)
LiveFbosAfter(n) ==
    IF n = 0 THEN preLive.framebuffers
    ELSE LET before == LiveFbosAfter(n - 1)
             call   == calls[n]
         IN CASE call[1] = "delete_framebuffer" -> before \ {call[2]}
              [] call[1] = "create_framebuffer" /\ call[2] # 0 -> before \cup {call[2]}
              [] OTHER -> before

\* positions in the call log of the calls that create a native object or
\* provision storage
AllocatingCalls ==
    {i \in 1..Len(calls) :
        calls[i][1] \in {"create_renderbuffer", "create_framebuffer",
                         "renderbuffer_storage"}}

\* C18: a configure_swapchain on a Surface that had a swapchain deletes each
\* old framebuffer before it creates any native object or provisions storage,
\* deletes no renderbuffer, and after none of its calls are two framebuffers
\* live.
C18_OldFramebuffersDeletedFirst ==
    (ConfigureReturned /\ pre.swapchain # None) =>
        /\ \A k \in Range(pre.swapchain[1].fbos) :
               \E i \in 1..Len(calls) :
                   /\ calls[i] = <<"delete_framebuffer", k>>
                   /\ \A j \in AllocatingCalls : i < j
        /\ "delete_renderbuffer" \notin CallNames
        /\ surface.renderbuffer = pre.renderbuffer
        /\ \A n \in 0..Len(calls) : Cardinality(LiveFbosAfter(n)) <= 1

\* a successful reconfiguration: the delete comes first, storage and the
\* new framebuffer later
C18_Witness ==
    /\ ConfigureOk
    /\ pre.swapchain # None
    /\ calls[1][1] = "delete_framebuffer"
    /\ "renderbuffer_storage" \in CallNames
    /\ "create_framebuffer" \in CallNames

\* C19 (as claimed): between operations the Surface holds a renderbuffer
\* exactly when it holds a swapchain, so acquire_image returns an image only
\* while a swapchain is installed.
C19_RenderbufferIffSwapchain ==
    /\ (surface.renderbuffer # None) <=> (surface.swapchain # None)
    /\ (AcquireReturned /\ result.image # None) => surface.swapchain # None

SwapchainAcquireReturned == result.op = "Swapchain::acquire_image"

\* C14: Swapchain::acquire_image returns Ok((0, None)) for every timeout and
\* every combination of supplied and missing semaphore and fence, and leaves
\* the Swapchain, the Surface and the live native objects as they were.
C14_LegacyAcquireReturnsZero ==
    SwapchainAcquireReturned =>
        /\ result.status = "ok"
        /\ returned # None
        /\ returned[1].index = Some(0)
        /\ result.suboptimal = None
        /\ surface = pre
        /\ Live(gl) = preLive
        /\ calls = <<>>

\* the legacy acquire with a zero timeout, a semaphore and no fence, on a
\* reconfigured swapchain
C14_Witness ==
    /\ SwapchainAcquireReturned
    /\ timeout_ns = 0
    /\ returned[1].semaphore
    /\ ~returned[1].fence
    /\ returned[1].index = Some(0)
    /\ gl.nFbo >= 2

\* the Surface values in existence
SurfaceValues == {surface} \cup Range(clone)

\* C20 (as claimed): no Surface value, the original or a clone, holds the
\* handle of a deleted native object, and no handle is deleted twice.
C20_NoDanglingHandleNoDoubleDelete ==
    /\ \A s \in SurfaceValues :
           /\ Range(s.renderbuffer) \subseteq gl.renderbuffers
           /\ s.swapchain # None => Range(s.swapchain[1].fbos) \subseteq gl.framebuffers
    /\ \A k \in CreatedFbos : gl.fboDeletes[k] <= 1
    /\ \A k \in CreatedRbos : gl.rboDeletes[k] <= 1

====
